---- MODULE Spec2Model ----
(***************************************************************************)
(* A model of the RAG document summarizer: the FAISS-backed VectorStore    *)
(* (src/vector_store.py), the TextSplitter (src/src/core/text_splitter.py) *)
(* and the RAGPipeline orchestration (src/rag_pipeline.py): its            *)
(* process_document, process_multiple_documents, query_documents and       *)
(* generate_document_summary.                                              *)
(*                                                                         *)
(* Python strings are sequences of one-character strings; Python indices   *)
(* are 0-based and are kept 0-based in every operator that models a Python *)
(* index (RFind, PySlice, split points, start_index, end_index).           *)
(***************************************************************************)
EXTENDS Integers, Sequences, FiniteSets, TLC

VARIABLES
    \* ---- VectorStore object (src/vector_store.py) ----
    index,            \* the FAISS index [kind, d, is_trained, vecs]; kind "none" is None
    metadata_store,   \* list of metadata dicts, parallel to index.vecs
    chunk_texts,      \* list of chunk texts, parallel to index.vecs
    embedding_dim,    \* a dimension, or NoDim
    index_type,       \* "flat" | "ivf" | "hnsw" | anything else
    index_path,       \* a path, or NoPath
    disk,             \* the file system: path -> [exists, faiss, pkl]
    ret,              \* outcome of the last VectorStore call
    saved,            \* history: path -> the store as of the last completed save_index
    \* ---- TextSplitter.split_text call ----
    text,             \* the input text
    chunk_size,       \* TextSplitter.chunk_size
    chunk_overlap,    \* TextSplitter.chunk_overlap
    chunks,           \* the returned list of TextChunk
    cuts,             \* history: for each returned chunk, what it was cut from
    split_pc,         \* "call" | "returned"
    split_pieces,     \* what split_text got from _split_by_paragraphs
    \* ---- RAGPipeline.process_document call ----
    pc,               \* position in process_document
    file_path,        \* its file_path argument
    save_flag,        \* its save_index argument
    title_kw,         \* the title keyword argument the caller passed, if any
    document,         \* the loaded document
    doc_chunks,       \* chunks of the document
    chunk_embeddings, \* result of generate_chunk_embeddings
    chunk_summaries,  \* result of summarize_chunks
    final_summary,    \* result of generate_final_summary
    started,          \* history: the stages of this call that started, in order
    completed,        \* history: the stages of this call that completed, in order
    result,           \* what the last RAGPipeline call returned, or the exception it raised
    store_before,     \* history: the store's contents when process_document was called
    \* ---- RAGPipeline.process_multiple_documents call ----
    multi_pc,         \* position in process_multiple_documents
    file_paths,       \* its file_paths argument
    multi_flag,       \* its save_index argument
    multi_i,          \* how many iterations of its loop have begun
    batch_results,    \* its results list
    saves,            \* history: save_index calls the pipeline made since it was called
    \* ---- RAGPipeline.generate_document_summary call ----
    gen_pc,           \* position in generate_document_summary
    gen_query,        \* its query argument
    \* ---- all of them ----
    calls             \* number of calls made so far (bounds a run)

storeVars == <<index, metadata_store, chunk_texts, embedding_dim, index_type,
               index_path, disk, ret, saved>>
splitVars == <<text, chunk_size, chunk_overlap, chunks, cuts, split_pc, split_pieces>>
pipeVars  == <<pc, file_path, save_flag, title_kw, document, doc_chunks, chunk_embeddings,
               chunk_summaries, final_summary, started, completed, result,
               store_before>>
multiVars == <<multi_pc, file_paths, multi_flag, multi_i, batch_results, saves>>
genVars == <<gen_pc, gen_query>>
vars == <<storeVars, splitVars, pipeVars, multiVars, genVars, calls>>

\* Python's None and '' where the code only tests truthiness: a dimension of 0,
\* the path with no components.
NoDim == 0
NoPath == [dir |-> "", base |-> ""]

Min(a, b) == IF a < b THEN a ELSE b
Max(a, b) == IF a > b THEN a ELSE b
SetMin(S) == CHOOSE x \in S : \A y \in S : x <= y
SetMax(S) == CHOOSE x \in S : \A y \in S : x >= y

(***************************************************************************)
(* Python string primitives                                                *)
(***************************************************************************)

\* str.isspace for one character (the characters \s matches).
IsSpace(c) == c \in {" ", "\n", "\t"}

\* s[lo:hi] with Python's treatment of negative and out-of-range indices.
PySlice(s, lo, hi) ==
    LET n == Len(s)
        a == IF lo < 0 THEN Max(lo + n, 0) ELSE Min(lo, n)
        b == IF hi < 0 THEN Max(hi + n, 0) ELSE Min(hi, n)
    IN  IF a < b THEN SubSeq(s, a + 1, b) ELSE <<>>

\* s.strip()
Strip(s) ==
    LET keep == {j \in 1..Len(s) : ~IsSpace(s[j])}
    IN  IF keep = {} THEN <<>> ELSE SubSeq(s, SetMin(keep), SetMax(keep))

\* s.rfind(pat): the 0-based start of the last occurrence, or -1.
RFind(s, pat) ==
    LET m == Len(pat)
        hits == {j \in 0..(Len(s) - m) : SubSeq(s, j + 1, j + m) = pat}
    IN  IF hits = {} THEN -1 ELSE SetMax(hits)

\* pat in s
Contains(s, pat) == RFind(s, pat) >= 0

\* s.startswith(p)
StartsWith(s, p) == Len(p) <= Len(s) /\ SubSeq(s, 1, Len(p)) = p

\* The last position of the run of whitespace starting at position i (1-based);
\* i - 1 when s[i] is not whitespace.
WsRunEnd(s, i) ==
    LET stop == {j \in i..Len(s) : ~IsSpace(s[j])}
    IN  IF stop = {} THEN Len(s) ELSE SetMin(stop) - 1

\* The line breaks of the whitespace run that follows position i.
BreaksAfter(s, i) == {j \in (i + 1)..WsRunEnd(s, i + 1) : s[j] = "\n"}

\* re.split(r'\n\s*\n', s) from position st (1-based) on: the pieces between
\* the matches, each match the leftmost one, reaching to the last line break of
\* its whitespace run.
RECURSIVE ParaScan(_, _)
ParaScan(s, st) ==
    LET matches == {i \in st..Len(s) : s[i] = "\n" /\ BreaksAfter(s, i) # {}}
        i == SetMin(matches)
    IN  IF matches = {} THEN <<SubSeq(s, st, Len(s))>>
        ELSE <<SubSeq(s, st, i - 1)>> \o ParaScan(s, SetMax(BreaksAfter(s, i)) + 1)

\* re.split(r'(?<=[.!?])\s+', s) from position st (1-based) on.
RECURSIVE SentScan(_, _)
SentScan(s, st) ==
    LET matches == {i \in Max(st, 2)..Len(s) :
                       IsSpace(s[i]) /\ s[i - 1] \in {".", "!", "?"}}
        i == SetMin(matches)
    IN  IF matches = {} THEN <<SubSeq(s, st, Len(s))>>
        ELSE <<SubSeq(s, st, i - 1)>> \o SentScan(s, WsRunEnd(s, i) + 1)

\* [x.strip() for x in pieces if x.strip()]
RECURSIVE StripNonEmpty(_)
StripNonEmpty(pieces) ==
    IF pieces = <<>> THEN <<>>
    ELSE LET h == Strip(Head(pieces))
         IN  (IF h = <<>> THEN <<>> ELSE <<h>>) \o StripNonEmpty(Tail(pieces))

(***************************************************************************)
(* TextSplitter (src/src/core/text_splitter.py)                            *)
(***************************************************************************)

\* TextSplitter.sentence_endings, in the order the code tries them.
sentence_endings == << <<".">>, <<"!">>, <<"?">>, <<".", "\n">>, <<"!", "\n">>, <<"?", "\n">> >>

\* TextSplitter._split_by_sentences
_split_by_sentences(s) == StripNonEmpty(SentScan(s, 1))

\* A faulty loop that splits every paragraph into sentences, whatever its length.
RECURSIVE ExpandEveryParagraph(_, _)
ExpandEveryParagraph(paras, size) ==
    IF paras = <<>> THEN <<>>
    ELSE _split_by_sentences(Head(paras)) \o ExpandEveryParagraph(Tail(paras), size)

\* The loop of _split_by_paragraphs: long paragraphs are replaced by their sentences.
RECURSIVE ExpandParagraphs(_, _)
ExpandParagraphs(paras, size) ==
    IF paras = <<>> THEN <<>>
    ELSE (IF Len(Head(paras)) > size
          THEN _split_by_sentences(Head(paras))
          ELSE <<Head(paras)>>) \o ExpandParagraphs(Tail(paras), size)

\* TextSplitter._split_by_paragraphs
_split_by_paragraphs(s, size) == StripNonEmpty(ExpandParagraphs(ParaScan(s, 1), size))

\* The sentence-ending loop of _find_best_split_point, from ending number k on:
\* the split point of the first ending that qualifies, or 0.
RECURSIVE EndingSplit(_, _, _)
EndingSplit(s, size, k) ==
    IF k > Len(sentence_endings) THEN 0
    ELSE LET ending == sentence_endings[k]
             last_sentence_end == RFind(s, ending)
         IN  IF Contains(s, ending) /\ last_sentence_end > 0 /\ last_sentence_end < size
             THEN last_sentence_end + Len(ending)
             ELSE EndingSplit(s, size, k + 1)

\* TextSplitter._find_best_split_point
_find_best_split_point(s, size) ==
    LET by_sentence == EndingSplit(s, size, 1)
        last_paragraph_break == RFind(s, <<"\n", "\n">>)
        last_space == RFind(s, <<" ">>)
    IN  IF by_sentence > 0 THEN by_sentence
        ELSE IF last_paragraph_break > 0 /\ last_paragraph_break < size
             THEN last_paragraph_break + 2
        ELSE IF last_space > 0 /\ last_space < size
             THEN last_space
        ELSE 0

\* A chunk id f"{document_id}_chunk_{n}", kept as a pair; '' is NoChunkId.
ChunkId(document_id, n) == <<document_id, n>>
NoChunkId == <<"", -1>>

\* TextChunk(...)
TextChunk(txt, start, end, document_id, n, paragraph_count) ==
    [text |-> txt, start_index |-> start, end_index |-> end,
     chunk_id |-> ChunkId(document_id, n),
     metadata |-> [paragraph_count |-> paragraph_count]]

\* The for-loop of split_text from paragraph number k (1-based) on, followed by
\* the emission of the last chunk.  acc.chunks is the list built so far; acc.cuts
\* records, for each chunk, the text it was cut from and how.
RECURSIVE SplitLoop(_, _, _, _, _, _, _, _)
SplitLoop(paragraphs, k, current_chunk, start_index, acc, size, overlap, document_id) ==
    IF k > Len(paragraphs)
    THEN IF Strip(current_chunk) # <<>>
         THEN [chunks |-> Append(acc.chunks,
                    TextChunk(Strip(current_chunk), start_index,
                              start_index + Len(current_chunk),
                              document_id, Len(acc.chunks), Len(paragraphs))),
               cuts |-> Append(acc.cuts, [src |-> current_chunk, how |-> "last"])]
         ELSE acc
    ELSE LET paragraph == paragraphs[k]
             split_point == _find_best_split_point(current_chunk, size)
             chunk_text == Strip(PySlice(current_chunk, 0, split_point))
             overlap_text == PySlice(current_chunk, split_point - overlap, split_point)
         IN  IF Len(current_chunk) + Len(paragraph) > size /\ current_chunk # <<>>
             THEN IF split_point > 0
                  THEN SplitLoop(paragraphs, k + 1, overlap_text \o paragraph,
                           start_index + split_point - overlap,
                           IF chunk_text # <<>>
                           THEN [chunks |-> Append(acc.chunks,
                                    TextChunk(chunk_text, start_index,
                                              start_index + Len(chunk_text),
                                              document_id, Len(acc.chunks), k - 1)),
                                 cuts |-> Append(acc.cuts,
                                    [src |-> PySlice(current_chunk, 0, split_point),
                                     how |-> "split"])]
                           ELSE acc,
                           size, overlap, document_id)
                  ELSE SplitLoop(paragraphs, k + 1, paragraph,
                           start_index + Len(paragraph) - overlap,
                           [chunks |-> Append(acc.chunks,
                                TextChunk(Strip(current_chunk), start_index,
                                          start_index + Len(current_chunk),
                                          document_id, Len(acc.chunks), k - 1)),
                            cuts |-> Append(acc.cuts,
                                [src |-> current_chunk, how |-> "forced"])],
                           size, overlap, document_id)
             ELSE SplitLoop(paragraphs, k + 1, current_chunk \o paragraph, start_index,
                            acc, size, overlap, document_id)

\* split_text together with the record of what each chunk was cut from.
SplitTrace(s, size, overlap, document_id) ==
    IF s = <<>> \/ Len(Strip(s)) = 0
    THEN [chunks |-> <<>>, cuts |-> <<>>]
    ELSE SplitLoop(_split_by_paragraphs(s, size), 1, <<>>, 0,
                   [chunks |-> <<>>, cuts |-> <<>>], size, overlap, document_id)

\* A faulty split_text that leaves out the chunk emitted after the loop.
SplitWithoutLastChunk(s, size, overlap, document_id) ==
    LET trace == SplitTrace(s, size, overlap, document_id)
    IN  SelectSeq(trace.chunks,
                  LAMBDA c : trace.cuts[c.chunk_id[2] + 1].how # "last")

\* TextSplitter.split_text
split_text(s, size, overlap, document_id) == SplitTrace(s, size, overlap, document_id).chunks

(***************************************************************************)
(* FAISS, as far as VectorStore uses it.  A vector is a tuple of integers. *)
(* A vector divided by its norm is kept as [dir, unit]: the integer vector *)
(* reduced by the gcd of its components, with unit = TRUE; two vectors     *)
(* have the same quotient exactly when these records are equal.  A zero    *)
(* vector is stored as it is (unit = FALSE).                               *)
(***************************************************************************)

\* faiss.IndexIVFFlat(quantizer, embedding_dim, 100): the number of clusters,
\* which is the least number of vectors train() accepts.  Scaled down from 100.
NList == 2

Abs(x) == IF x < 0 THEN -x ELSE x

RECURSIVE Gcd(_, _)
Gcd(a, b) == IF b = 0 THEN a ELSE Gcd(b, a % b)

RECURSIVE VecGcd(_)
VecGcd(v) == IF v = <<>> THEN 0 ELSE Gcd(Abs(Head(v)), VecGcd(Tail(v)))

RECURSIVE Dot(_, _)
Dot(u, v) == IF u = <<>> THEN 0 ELSE Head(u) * Head(v) + Dot(Tail(u), Tail(v))

\* embedding / np.linalg.norm(embedding) when normalize and norm > 0
Normalize(v, normalize) ==
    IF normalize /\ VecGcd(v) > 0
    THEN [dir |-> [j \in 1..Len(v) |-> v[j] \div VecGcd(v)], unit |-> TRUE]
    ELSE [dir |-> v, unit |-> FALSE]

\* The square of the number a stored vector's components are divided by.
Scale2(x) == IF x.unit THEN Dot(x.dir, x.dir) ELSE 1

\* Inner product of query q with x is at least that with y (IndexFlatIP's order):
\* Dot(q,x)/sqrt(Scale2(x)) >= Dot(q,y)/sqrt(Scale2(y)).
ScoreGE(q, x, y) ==
    LET a == Dot(q.dir, x.dir)
        b == Dot(q.dir, y.dir)
    IN  IF a >= 0 /\ b <= 0 THEN TRUE
        ELSE IF a < 0 /\ b >= 0 THEN FALSE
        ELSE IF a > 0 THEN a * a * Scale2(y) >= b * b * Scale2(x)
        ELSE a * a * Scale2(y) <= b * b * Scale2(x)

\* self.index = None
NoIndex == [kind |-> "none", d |-> 0, is_trained |-> FALSE, vecs |-> <<>>]

\* VectorStore._create_index: the new index; kind "ValueError" when it raises.
_create_index(type, d) ==
    IF type = "flat" THEN [kind |-> "flat", d |-> d, is_trained |-> TRUE, vecs |-> <<>>]
    ELSE IF type = "ivf" THEN [kind |-> "ivf", d |-> d, is_trained |-> FALSE, vecs |-> <<>>]
    ELSE IF type = "hnsw" THEN [kind |-> "hnsw", d |-> d, is_trained |-> TRUE, vecs |-> <<>>]
    ELSE [kind |-> "ValueError", d |-> d, is_trained |-> FALSE, vecs |-> <<>>]

ntotal(ix) == Len(ix.vecs)

\* All orderings of the elements of a set of at most k labels drawn from S.
Arrangements(S, k) ==
    {sq \in UNION {[1..n -> S] : n \in 0..k} :
        \A i, j \in DOMAIN sq : i # j => sq[i] # sq[j]}

\* index.search(query_vector, k): the label rows FAISS may return (0-based labels).
\* A flat index returns the k best labels, best first, ties in any order.  An IVF
\* or HNSW index searches part of the data: it returns some labels, best first,
\* and fills the row up to k with -1.
FaissSearch(ix, q, k) ==
    LET labels == 0..(ntotal(ix) - 1)
        sorted(sq) == \A i, j \in DOMAIN sq :
                         i < j => ScoreGE(q, ix.vecs[sq[i] + 1], ix.vecs[sq[j] + 1])
        best(sq) == \A l \in labels : \A i \in DOMAIN sq :
                         (\A j \in DOMAIN sq : sq[j] # l) =>
                             ScoreGE(q, ix.vecs[sq[i] + 1], ix.vecs[l + 1])
        pad(sq) == sq \o [j \in 1..(k - Len(sq)) |-> -1]
    IN  IF ix.kind = "flat"
        THEN {sq \in Arrangements(labels, k) : Len(sq) = k /\ sorted(sq) /\ best(sq)}
        ELSE {pad(sq) : sq \in {t \in Arrangements(labels, k) : sorted(t)}}

(***************************************************************************)
(* VectorStore (src/vector_store.py)                                       *)
(***************************************************************************)

\* list[i] for a Python index i that passed the code's "i < len(list)" test:
\* a negative i counts from the end.
PyItem(list, i) == IF i < 0 THEN list[Len(list) + i + 1] ELSE list[i + 1]

Has(d, key) == key \in DOMAIN d
\* d.get(key, default)
Get(d, key, default) == IF Has(d, key) THEN d[key] ELSE default

\* add_embeddings, lines 91-96: the metadata dict stored for emb_data.
MetadataOf(emb_data) ==
    [chunk_id    |-> Get(emb_data, "chunk_id", NoChunkId),
     metadata    |-> Get(emb_data, "metadata", <<>>),
     start_index |-> Get(emb_data, "start_index", 0),
     end_index   |-> Get(emb_data, "end_index", 0)]

\* add_embeddings, lines 98-102: the text stored for emb_data.
TextOf(emb_data) == IF Has(emb_data, "text") THEN emb_data["text"] ELSE <<>>

\* The store's three parallel lists as one record.
Lists(ix, meta, texts) == [index |-> ix, metadata_store |-> meta, chunk_texts |-> texts]

\* A faulty last step of add_embeddings that stores no text for an entry without one.
ExtendSkippingNoText(ix, meta, texts, array, metadata_list, text_list) ==
    Lists([ix EXCEPT !.vecs = @ \o array],
          meta \o metadata_list,
          texts \o SelectSeq(text_list, LAMBDA t : t # <<>>))

\* A faulty last step of add_embeddings that puts the batch in front.
ExtendInFront(ix, meta, texts, array, metadata_list, text_list) ==
    Lists([ix EXCEPT !.vecs = array \o @], metadata_list \o meta, text_list \o texts)

\* add_embeddings, lines 117-121: index.add, metadata_store.extend, chunk_texts.extend.
Extend(ix, meta, texts, array, metadata_list, text_list) ==
    Lists([ix EXCEPT !.vecs = @ \o array], meta \o metadata_list, texts \o text_list)

\* A faulty add_embeddings that extends metadata_store and chunk_texts before it
\* trains the index and adds the vectors.
AddBatchListsFirst(ix, meta, texts, type, embeddings, normalize) ==
    LET n == Len(embeddings)
        dims == {Len(embeddings[j].embedding) : j \in 1..n}
        d == CHOOSE x \in dims : TRUE
        created == IF ix.kind = "none" THEN _create_index(type, d) ELSE ix
        array == [j \in 1..n |-> Normalize(embeddings[j].embedding, normalize)]
        metadata_list == [j \in 1..n |-> MetadataOf(embeddings[j])]
        text_list == [j \in 1..n |-> TextOf(embeddings[j])]
    IN  IF Cardinality(dims) # 1 \/ created.kind = "ValueError"
        THEN [raised |-> TRUE, lists |-> Lists(ix, meta, texts)]
        ELSE IF created.d # d \/ (~created.is_trained /\ n < NList)
        THEN [raised |-> TRUE,
              lists |-> Lists(created, meta \o metadata_list, texts \o text_list)]
        ELSE [raised |-> FALSE,
              lists |-> Extend([created EXCEPT !.is_trained = TRUE], meta, texts,
                               array, metadata_list, text_list)]

\* add_embeddings, lines 104-121, for a batch whose entries all have an
\* embedding: the store's lists afterwards, and whether the call raised.
AddBatch(ix, meta, texts, type, embeddings, normalize) ==
    LET n == Len(embeddings)
        dims == {Len(embeddings[j].embedding) : j \in 1..n}
        d == CHOOSE x \in dims : TRUE
        created == IF ix.kind = "none" THEN _create_index(type, d) ELSE ix
        needs_training == ~created.is_trained
        trained == [created EXCEPT !.is_trained = TRUE]
        array == [j \in 1..n |-> Normalize(embeddings[j].embedding, normalize)]
    IN  IF Cardinality(dims) # 1
        THEN [raised |-> TRUE, lists |-> Lists(ix, meta, texts)]         \* np.array
        ELSE IF created.kind = "ValueError"
        THEN [raised |-> TRUE, lists |-> Lists(ix, meta, texts)]         \* _create_index
        ELSE IF created.d # d \/ (needs_training /\ n < NList)
        THEN [raised |-> TRUE, lists |-> Lists(created, meta, texts)]    \* train / add
        ELSE [raised |-> FALSE,
              lists |-> Extend(trained, meta, texts, array,
                               [j \in 1..n |-> MetadataOf(embeddings[j])],
                               [j \in 1..n |-> TextOf(embeddings[j])])]

\* search, lines 156-167: the result list for one row of labels; scores are
\* not modelled beyond the order FAISS returns the labels in.
RECURSIVE FormatResults(_, _, _)
FormatResults(row, meta, texts) ==
    IF row = <<>> THEN <<>>
    ELSE LET idx == Head(row)
         IN  (IF idx < Len(meta)
              THEN << [index |-> idx,
                       metadata |-> PyItem(meta, idx),
                       text |-> IF idx < Len(texts) THEN PyItem(texts, idx) ELSE <<>>] >>
              ELSE <<>>) \o FormatResults(Tail(row), meta, texts)

\* remove_embeddings, lines 316-318: the 0-based positions to remove.
IndicesToRemove(meta, chunk_ids) ==
    {i \in 0..(Len(meta) - 1) : meta[i + 1].chunk_id \in chunk_ids}

\* [list[i] for i in range(len(list)) if i not in indices_to_remove]
RECURSIVE Remaining(_, _, _)
Remaining(list, indices_to_remove, i) ==
    IF i >= Len(list) THEN <<>>
    ELSE (IF i \in indices_to_remove THEN <<>> ELSE <<list[i + 1]>>)
         \o Remaining(list, indices_to_remove, i + 1)

\* A faulty rebuild that filters the vectors and the metadata but not the texts.
RebuildKeepingTexts(ix, meta, texts, type, indices_to_remove) ==
    Lists([_create_index(type, ix.d) EXCEPT !.vecs = Remaining(ix.vecs, indices_to_remove, 0)],
          Remaining(meta, indices_to_remove, 0),
          texts)

\* remove_embeddings, lines 325-341: the rebuilt lists of a flat index.
Rebuild(ix, meta, texts, type, indices_to_remove) ==
    LET remaining_embeddings == Remaining(ix.vecs, indices_to_remove, 0)
        fresh == _create_index(type, ix.d)
    IN  Lists([fresh EXCEPT !.vecs = @ \o remaining_embeddings],
              Remaining(meta, indices_to_remove, 0),
              Remaining(texts, indices_to_remove, 0))

\* A faulty pickled dict that leaves out 'index_type'.
PickleWithoutType(meta, texts, dim, type) ==
    [metadata |-> meta, texts |-> texts, embedding_dim |-> dim]

\* save_index, lines 252-259: the pickled dict.
Pickle(meta, texts, dim, type) ==
    [metadata |-> meta, texts |-> texts, embedding_dim |-> dim, index_type |-> type]

\* load_index, lines 277-285: the fields the call sets from the two files.
Loaded(faiss_file, pkl_file) ==
    [index |-> faiss_file,
     metadata_store |-> pkl_file["metadata"],
     chunk_texts |-> pkl_file["texts"],
     embedding_dim |-> Get(pkl_file, "embedding_dim", NoDim),
     index_type |-> Get(pkl_file, "index_type", "flat")]

\* os.path.dirname(path) and the file names save_index and load_index use.
Dirname(path) == path.dir

\* get_statistics()['total_vectors']
TotalVectors(ix) == IF ix.kind = "none" THEN 0 ELSE ntotal(ix)

\* The outcome of a call: which method, whether it raised, search's result, and
\* the count in the message the call logs at the end ("Added n embeddings",
\* "Removed n embeddings", "Loaded index ... with n vectors"), 0 when it logs none.
Outcome(op, raised, results, logged) ==
    [op |-> op, raised |-> raised, results |-> results, logged |-> logged]

(***************************************************************************)
(* Inputs of the VectorStore calls                                         *)
(***************************************************************************)

MaxOps     == 4   \* VectorStore calls in one run
MaxVectors == 3   \* calls that would grow the store beyond this are not made
MaxBatch   == 2   \* longest list passed to add_embeddings
MaxK       == 2   \* largest k passed to search

\* One path with a directory part and one without.
DirPath  == [dir |-> "idx", base |-> "store"]
BarePath == [dir |-> "", base |-> "store"]
Paths == {DirPath, BarePath}
\* The index_path a VectorStore is constructed with in Spec.
IndexPaths == {NoPath, DirPath}

\* The emb_data dicts passed to add_embeddings: two of dimension 2 (one without
\* 'text' and 'metadata'), one of dimension 1, one without 'embedding'.
EmbData ==
    {[embedding |-> <<2, 0>>, chunk_id |-> ChunkId("a", 0), text |-> <<"a">>,
      metadata |-> [test |-> TRUE]],
     [embedding |-> <<1, 1>>, chunk_id |-> ChunkId("b", 0)],
     [embedding |-> <<3>>, chunk_id |-> ChunkId("c", 0), text |-> <<"c">>],
     [chunk_id |-> ChunkId("b", 0)]}

Batches == UNION {[1..n -> EmbData] : n \in 0..MaxBatch}
ChunkIdLists == SUBSET {ChunkId("a", 0), ChunkId("b", 0), ChunkId("z", 0)}
Queries == {<<2, 1>>, <<1>>}
Dims == {NoDim, 2}
IndexTypes == {"flat", "ivf", "hnsw", "annoy"}

\* One more call, within the bound on the length of a run.
Tick == calls < MaxOps /\ calls' = calls + 1

NoFiles == [exists |-> FALSE, faiss |-> <<>>, pkl |-> <<>>]

\* The content of a metadata file that pickle.load cannot read.
Unreadable == [unreadable |-> TRUE]

(***************************************************************************)
(* The VectorStore calls                                                   *)
(***************************************************************************)

\* VectorStore(index_path=p, embedding_dim=dim, index_type=type).  When __init__
\* raises there is no new object and the caller is left with the store it had.
Construct(p, dim, type) ==
    LET files == disk[p]
        load == p # NoPath /\ files.exists
        found == files.faiss # <<>> /\ files.pkl # <<>>
        new == Loaded(files.faiss[1], files.pkl[1])
        created == _create_index(type, dim)
    IN  /\ Tick
        /\ p \in IndexPaths
        /\ IF load /\ found
           THEN /\ index' = new.index
                /\ metadata_store' = new.metadata_store
                /\ chunk_texts' = new.chunk_texts
                /\ embedding_dim' = new.embedding_dim
                /\ index_type' = new.index_type
                /\ index_path' = p
                /\ ret' = Outcome("__init__", FALSE, <<>>, ntotal(new.index))
           ELSE IF load \/ (dim # NoDim /\ created.kind = "ValueError")
           THEN /\ ret' = Outcome("__init__", TRUE, <<>>, 0)
                /\ UNCHANGED <<index, metadata_store, chunk_texts, embedding_dim,
                               index_type, index_path>>
           ELSE /\ index' = IF dim # NoDim THEN created ELSE NoIndex
                /\ metadata_store' = <<>>
                /\ chunk_texts' = <<>>
                /\ embedding_dim' = dim
                /\ index_type' = type
                /\ index_path' = p
                /\ ret' = Outcome("__init__", FALSE, <<>>, 0)
        /\ UNCHANGED <<disk, saved, splitVars, pipeVars, multiVars, genVars>>

\* store.add_embeddings(embeddings), normalize left at its default True (no
\* caller in the repository passes it).
AddEmbeddings(embeddings) ==
    LET res == AddBatch(index, metadata_store, chunk_texts, index_type, embeddings, TRUE)
    IN  /\ Tick
        /\ Len(metadata_store) + Len(embeddings) <= MaxVectors
        /\ IF embeddings = <<>>
           THEN /\ ret' = Outcome("add_embeddings", FALSE, <<>>, 0)
                /\ UNCHANGED <<index, metadata_store, chunk_texts>>
           ELSE IF \E j \in DOMAIN embeddings : ~Has(embeddings[j], "embedding")
           THEN /\ ret' = Outcome("add_embeddings", TRUE, <<>>, 0)       \* KeyError
                /\ UNCHANGED <<index, metadata_store, chunk_texts>>
           ELSE /\ index' = res.lists.index
                /\ metadata_store' = res.lists.metadata_store
                /\ chunk_texts' = res.lists.chunk_texts
                /\ ret' = Outcome("add_embeddings", res.raised, <<>>,
                                  IF res.raised THEN 0 ELSE Len(embeddings))
        /\ UNCHANGED <<embedding_dim, index_type, index_path, disk, saved,
                       splitVars, pipeVars, multiVars, genVars>>

\* store.search(query_embedding, k)
Search(query_embedding, k) ==
    LET kk == Min(k, ntotal(index))
    IN  /\ Tick
        /\ IF index.kind = "none" \/ ntotal(index) = 0
           THEN ret' = Outcome("search", FALSE, <<>>, 0)
           ELSE IF Len(query_embedding) # index.d
           THEN ret' = Outcome("search", TRUE, <<>>, 0)
           ELSE \E row \in FaissSearch(index, Normalize(query_embedding, TRUE), kk) :
                    ret' = Outcome("search", FALSE,
                                   FormatResults(row, metadata_store, chunk_texts), 0)
        /\ UNCHANGED <<index, metadata_store, chunk_texts, embedding_dim, index_type,
                       index_path, disk, saved, splitVars, pipeVars, multiVars, genVars>>

\* store.remove_embeddings(chunk_ids)
RemoveEmbeddings(chunk_ids) ==
    LET indices_to_remove == IndicesToRemove(metadata_store, chunk_ids)
        rebuilt == Rebuild(index, metadata_store, chunk_texts, index_type,
                           indices_to_remove)
    IN  /\ Tick
        /\ IF chunk_ids # {} /\ indices_to_remove # {} /\ index.kind = "flat"
           THEN /\ index' = rebuilt.index
                /\ metadata_store' = rebuilt.metadata_store
                /\ chunk_texts' = rebuilt.chunk_texts
                /\ ret' = Outcome("remove_embeddings", FALSE, <<>>,
                                  Cardinality(indices_to_remove))
           ELSE /\ UNCHANGED <<index, metadata_store, chunk_texts>>
                /\ ret' = Outcome("remove_embeddings", FALSE, <<>>, 0)
        /\ UNCHANGED <<embedding_dim, index_type, index_path, disk, saved,
                       splitVars, pipeVars, multiVars, genVars>>

\* store.clear()
Clear ==
    /\ Tick
    /\ index' = IF index.kind # "none" /\ embedding_dim # NoDim
                THEN _create_index(index_type, embedding_dim)
                ELSE NoIndex
    /\ metadata_store' = <<>>
    /\ chunk_texts' = <<>>
    /\ ret' = Outcome("clear", FALSE, <<>>, 0)
    /\ UNCHANGED <<embedding_dim, index_type, index_path, disk, saved,
                   splitVars, pipeVars, multiVars, genVars>>

\* save_index, line 241: path or self.index_path
SavePath(path) == IF path # NoPath THEN path ELSE index_path

\* save_index raises: ValueError for no path (line 243), FileNotFoundError from
\* os.makedirs('') for a path without a directory part (line 246).
SaveRaises(path) ==
    index.kind # "none" /\ (SavePath(path) = NoPath \/ Dirname(SavePath(path)) = "")

\* save_index, lines 249-259: the files left at save_path.
Written(files) ==
    [files EXCEPT !.faiss = <<index>>,
                  !.pkl = <<Pickle(metadata_store, chunk_texts, embedding_dim, index_type)>>]

\* The store as save_index(path) sees it, for the history variable saved.
Snapshot ==
    [index |-> index, metadata_store |-> metadata_store, chunk_texts |-> chunk_texts,
     index_type |-> index_type, index_path |-> index_path]

\* What a call save_index(path) does to the file system.
SaveEffect(path) ==
    IF index.kind = "none" \/ SaveRaises(path)
    THEN UNCHANGED <<disk, saved>>
    ELSE /\ disk' = [disk EXCEPT ![SavePath(path)] = Written(@)]
         /\ saved' = [saved EXCEPT ![SavePath(path)] = <<Snapshot>>]

\* store.save_index(path); path = NoPath is save_index().
SaveIndex(path) ==
    /\ Tick
    /\ path \in Paths \cup {NoPath}
    /\ SaveEffect(path)
    /\ ret' = Outcome("save_index", SaveRaises(path), <<>>, 0)
    /\ UNCHANGED <<index, metadata_store, chunk_texts, embedding_dim, index_type,
                   index_path, splitVars, pipeVars, multiVars, genVars>>

\* store.save_index(path) that stops after faiss.write_index: the process is
\* killed, or opening or writing the metadata file raises.  The .faiss file is
\* the new one; the .metadata.pkl file is as it was, or (truncated = TRUE) was
\* opened for writing and is left cut short.
SaveIndexInterrupted(path, truncated) ==
    /\ Tick
    /\ path \in Paths \cup {NoPath}
    /\ index.kind # "none" /\ ~SaveRaises(path)
    /\ disk' = [disk EXCEPT ![SavePath(path)] =
                    [@ EXCEPT !.faiss = <<index>>,
                              !.pkl = IF truncated THEN <<Unreadable>> ELSE @]]
    /\ ret' = Outcome("save_index", TRUE, <<>>, 0)
    /\ UNCHANGED <<index, metadata_store, chunk_texts, embedding_dim, index_type,
                   index_path, saved, splitVars, pipeVars, multiVars, genVars>>

\* store.load_index(path).  self.index is assigned (line 277) before the metadata
\* file is opened, and self.metadata_store (line 282) before data['texts'] is read.
LoadIndex(path) ==
    LET files == disk[path]
        new == Loaded(files.faiss[1], files.pkl[1])
    IN  /\ Tick
        /\ path \in Paths
        /\ IF files.faiss = <<>> \/ files.pkl = <<>>
           THEN /\ ret' = Outcome("load_index", TRUE, <<>>, 0)   \* FileNotFoundError
                /\ UNCHANGED <<index, metadata_store, chunk_texts, embedding_dim,
                               index_type>>
           ELSE IF ~Has(files.pkl[1], "metadata")
           THEN \* pickle.load raises, or data['metadata'] raises KeyError
                /\ index' = files.faiss[1]
                /\ ret' = Outcome("load_index", TRUE, <<>>, 0)
                /\ UNCHANGED <<metadata_store, chunk_texts, embedding_dim, index_type>>
           ELSE IF ~Has(files.pkl[1], "texts")
           THEN \* data['texts'] raises KeyError
                /\ index' = files.faiss[1]
                /\ metadata_store' = files.pkl[1]["metadata"]
                /\ ret' = Outcome("load_index", TRUE, <<>>, 0)
                /\ UNCHANGED <<chunk_texts, embedding_dim, index_type>>
           ELSE /\ index' = new.index
                /\ metadata_store' = new.metadata_store
                /\ chunk_texts' = new.chunk_texts
                /\ embedding_dim' = new.embedding_dim
                /\ index_type' = new.index_type
                /\ ret' = Outcome("load_index", FALSE, <<>>, ntotal(new.index))
        /\ UNCHANGED <<index_path, disk, saved, splitVars, pipeVars, multiVars, genVars>>

\* Something outside the program creates a file or directory named exactly path
\* (what os.path.exists(index_path) in __init__ looks for).
ExternalCreate(path) ==
    /\ Tick
    /\ path \in IndexPaths \ {NoPath}
    /\ ~disk[path].exists
    /\ disk' = [disk EXCEPT ![path].exists = TRUE]
    /\ UNCHANGED <<index, metadata_store, chunk_texts, embedding_dim, index_type,
                   index_path, ret, saved, splitVars, pipeVars, multiVars, genVars>>

(***************************************************************************)
(* DataLoader (src/src/core/data_loader.py)                                *)
(***************************************************************************)

MinContentLength   == 100   \* validate_document: len(content.strip()) < 100
MinMeaningfulChars == 50    \* validate_document: meaningful_chars < 50

IsDigit(c) == c \in {"0", "1", "2", "3", "4", "5", "6", "7", "8", "9"}
\* A character that [^\w\s\.\,\;\:\!\?\-\(\)\[\]\{\}] matches, i.e. one the cleaning removes.
IsSpecial(c) == c \in {"#", "@", "*", "$"}

\* re.sub(r'\s+', ' ', s)
CollapseSpaces(s) ==
    LET first(j) == j = 1 \/ ~IsSpace(s[j - 1])      \* s[j] starts a whitespace run
        marked == [j \in 1..Len(s) |->
                      [c |-> IF IsSpace(s[j]) THEN " " ELSE s[j],
                       keep |-> ~IsSpace(s[j]) \/ first(j)]]
        kept == SelectSeq(marked, LAMBDA m : m.keep)
    IN  [j \in 1..Len(kept) |-> kept[j].c]

\* re.sub(r'[^\w\s\.\,\;\:\!\?\-\(\)\[\]\{\}]', '', s)
DropSpecial(s) == SelectSeq(s, LAMBDA c : ~IsSpecial(c))

\* re.sub(r'^\d+$', '', s, flags=re.MULTILINE) on a text without line breaks
DropPageNumber(s) ==
    IF s # <<>> /\ \A j \in DOMAIN s : IsDigit(s[j]) THEN <<>> ELSE s

\* DataLoader._clean_text (re.sub(r'\n+', '\n', s) finds no line break to replace
\* once whitespace runs are single spaces)
DataLoaderClean(s) == Strip(DropPageNumber(DropSpecial(CollapseSpaces(s))))

\* str(Path(file_path)): pathlib drops a leading "./".
PathStr(fp) == [fp EXCEPT !.lead = ""]

\* DataLoader.load_document for a file [exists, content] at file path fp =
\* [lead, stem, suffix]: the document, or status "FileNotFoundError" /
\* "ValueError".  For a PDF, content is the text PyMuPDF extracts and the title
\* is the PDF's.  The document's file_path is str(Path(file_path)).
load_document(fp, file) ==
    LET doc(title, type) ==
            [status |-> "ok", content |-> DataLoaderClean(file.content),
             metadata |-> [title |-> title, author |-> ""],
             file_path |-> PathStr(fp), file_type |-> type]
        failed(e) == [status |-> e, content |-> <<>>,
                      metadata |-> [title |-> "", author |-> ""],
                      file_path |-> PathStr(fp), file_type |-> ""]
    IN  IF ~file.exists THEN failed("FileNotFoundError")
        ELSE IF fp.suffix = ".pdf" THEN doc(file.pdf_title, "pdf")
        ELSE IF fp.suffix = ".txt" THEN doc(fp.stem, "text")
        ELSE failed("ValueError")

\* DataLoader.validate_document
validate_document(doc) ==
    LET content == doc.content
        meaningful_chars == Len(SelectSeq(content, LAMBDA c : ~IsSpace(c)))
    IN  ~(content = <<>> \/ Len(Strip(content)) < MinContentLength)
        /\ ~(meaningful_chars < MinMeaningfulChars)

\* TextSplitter.split_document: split_text with the document's stem as document
\* id, then chunk.metadata.update(...) on every chunk.
split_document(doc, size, overlap) ==
    LET cs == split_text(doc.content, size, overlap, doc.file_path.stem)
    IN  [j \in 1..Len(cs) |->
            [cs[j] EXCEPT !.metadata =
                [paragraph_count |-> @.paragraph_count,
                 document_title |-> doc.metadata.title,
                 document_author |-> doc.metadata.author,
                 file_path |-> doc.file_path,
                 original_metadata |-> doc.metadata]]]

(***************************************************************************)
(* EmbeddingService (src/embedding_service.py)                             *)
(***************************************************************************)

\* Dimension of the sentence-transformers model's vectors (384 for MiniLM), scaled down.
EncoderDim == 2

\* self.model.encode: a fixed function of the text.  Any would do; this one
\* measures the text's length and counts its sentence ends.
Encode(txt) ==
    [j \in 1..EncoderDim |->
        IF j = 1 THEN Len(txt) ELSE Len(SelectSeq(txt, LAMBDA c : c = "."))]

\* generate_embedding(text): the vector, or what it raises: ValueError for an
\* empty or whitespace-only text, the encoder's own exception when encode fails.
generate_embedding(txt, encoder_ok) ==
    IF txt = <<>> \/ Strip(txt) = <<>>
    THEN [raised |-> TRUE, error |-> "Text cannot be empty", embedding |-> <<>>]
    ELSE IF ~encoder_ok
    THEN [raised |-> TRUE, error |-> "encode", embedding |-> <<>>]
    ELSE [raised |-> FALSE, error |-> "", embedding |-> Encode(txt)]

\* generate_chunk_embeddings, lines 154-168, for TextChunk objects: one dict per
\* chunk with 'embedding', 'chunk_id', 'metadata', 'start_index', 'end_index'.
generate_chunk_embeddings(cs) ==
    [j \in 1..Len(cs) |->
        [embedding |-> Encode(cs[j].text),
         chunk_id |-> cs[j].chunk_id,
         metadata |-> cs[j].metadata,
         start_index |-> cs[j].start_index,
         end_index |-> cs[j].end_index]]

(***************************************************************************)
(* Summarizer (src/src/core/summarizer.py)                                 *)
(***************************************************************************)

SummaryMaxLength == 512   \* Summarizer.max_length
SummaryMinLength == 50    \* Summarizer.min_length
ShortTextLength  == 100   \* summarize_text returns texts shorter than this unchanged

\* Summarizer._clean_text
SummarizerClean(s) == Strip(DropSpecial(CollapseSpaces(s)))

\* Summarizer._post_process_summary
_post_process_summary(s) ==
    LET c == CollapseSpaces(s)
    IN  Strip(IF c # <<>> /\ c[Len(c)] \notin {".", "!", "?"} THEN Append(c, ".") ELSE c)

\* The transformers summarization pipeline: a fixed function of the text that
\* returns between min_length and max_length of it.  This one keeps the head.
ModelSummary(cleaned) == PySlice(cleaned, 0, SummaryMinLength)

\* Summarizer.summarize_text; model_ok says whether the transformers pipeline
\* answers or raises (the except branch returns the head of the cleaned text).
summarize_text(s, model_ok) ==
    LET cleaned == SummarizerClean(s)
    IN  IF s = <<>> \/ Strip(s) = <<>> THEN <<>>
        ELSE IF Len(cleaned) < ShortTextLength THEN cleaned
        ELSE IF model_ok THEN _post_process_summary(ModelSummary(cleaned))
        ELSE PySlice(cleaned, 0, SummaryMaxLength)

\* Summarizer.summarize_chunks
summarize_chunks(cs, model_ok) ==
    [j \in 1..Len(cs) |->
        [chunk_id |-> cs[j].chunk_id,
         original_text |-> cs[j].text,
         summary |-> summarize_text(cs[j].text, model_ok),
         metadata |-> cs[j].metadata]]

\* " ".join(summary['summary'] for summary in chunk_summaries)
RECURSIVE JoinSummaries(_)
JoinSummaries(sums) ==
    IF sums = <<>> THEN <<>>
    ELSE IF Len(sums) = 1 THEN sums[1].summary
    ELSE sums[1].summary \o <<" ">> \o JoinSummaries(Tail(sums))

\* Summarizer.generate_final_summary(chunk_summaries, strategy="hierarchical")
generate_final_summary(sums, model_ok) ==
    LET combined_text == JoinSummaries(sums)
    IN  IF sums = <<>> THEN <<>>
        ELSE IF Len(combined_text) <= SummaryMaxLength THEN combined_text
        ELSE summarize_text(combined_text, model_ok)

\* Summarizer.summarize_with_rag(query, retrieved_chunks)
summarize_with_rag(query, retrieved_chunks, model_ok) ==
    LET context_texts == [j \in 1..Len(retrieved_chunks) |->
                             [summary |-> Get(retrieved_chunks[j], "text", <<>>)]]
        context == JoinSummaries(context_texts)
        prompt == IF query # <<>>
                  THEN <<"Q", "u", "e", "r", "y", ":", " ">> \o query
                       \o <<"\n", "\n", "C", "o", "n", "t", "e", "x", "t", ":", " ">>
                       \o context
                       \o <<"\n", "\n", "S", "u", "m", "m", "a", "r", "y", ":">>
                  ELSE <<"S", "u", "m", "m", "a", "r", "i", "z", "e", " ", "t", "h", "e",
                         " ", "f", "o", "l", "l", "o", "w", "i", "n", "g", " ", "t", "e",
                         "x", "t", ":", "\n", "\n">> \o context
    IN  IF retrieved_chunks = <<>> THEN <<>> ELSE summarize_text(prompt, model_ok)

(***************************************************************************)
(* RAGPipeline.process_document (src/rag_pipeline.py), one stage per step  *)
(***************************************************************************)

PipeChunkSize    == 100   \* RAGPipeline(chunk_size=...)
PipeChunkOverlap == 20    \* RAGPipeline(chunk_overlap=...)
MaxCalls         == 2     \* RAGPipeline calls in one run

RECURSIVE Repeat(_, _)
Repeat(s, n) == IF n = 0 THEN <<>> ELSE s \o Repeat(s, n - 1)

\* A file path as the caller writes it: lead is "./" or nothing, then the name.
FilePath(stem, suffix) == [lead |-> "", stem |-> stem, suffix |-> suffix]
DotSlash(fp) == [fp EXCEPT !.lead = "./"]

\* The files the pipeline is pointed at: a long text file (two chunks), a text
\* file with line breaks and characters the loader removes (one chunk), a PDF, a
\* file too short to validate, a format the loader refuses, and a missing file.
FilePaths == {FilePath("paper", ".txt"), FilePath("memo", ".txt"),
              FilePath("scan", ".pdf"), FilePath("note", ".txt"),
              FilePath("slides", ".ppt"), FilePath("gone", ".txt")}

FileAt(fp) ==
    [exists |-> fp.stem # "gone",
     pdf_title |-> IF fp.suffix = ".pdf" THEN "Scan" ELSE "",
     content |->
        IF fp.stem = "paper" THEN Repeat(<<"a", "a", "a", "a", ".", " ">>, 30)
        ELSE IF fp.stem = "memo" THEN Repeat(<<"b", "b", "\n", "b", "#", ".", " ">>, 20)
        ELSE IF fp.stem = "scan" THEN Repeat(<<"c", " ", "c", "c", "!", "\n", "\n">>, 18)
        ELSE <<"s", "h", "o", "r", "t", ".">>]

\* The title the deployment test passes.
Titles == {<<"T", "e", "s", "t">>}

StageOrder == <<"load", "validate", "split", "embed", "add", "summarize", "final", "save">>

\* A faulty test of step 7 that looks at save_index alone.
ShouldSaveWhenAsked(flag, path) == flag

\* process_document, line 139: if save_index and self.index_path
ShouldSave(flag, path) == flag /\ path # NoPath

\* What a call left in result when it raised: the exception, named by the step
\* of the call that raised it (or by its type when no step was reached).
Raised(e) == [exception |-> e]
NoResult == <<>>
NoTitle == <<>>

\* TextSplitter.get_chunk_statistics; the average is kept as the fraction sum / n.
get_chunk_statistics(cs) ==
    LET chunk_lengths == [j \in 1..Len(cs) |-> Len(cs[j].text)]
        total == Len(JoinSummaries([j \in 1..Len(cs) |-> [summary |-> cs[j].text]]))
                 - (Len(cs) - 1)
    IN  IF cs = <<>> THEN <<>>
        ELSE [total_chunks |-> Len(cs),
              avg_chunk_length |-> <<total, Len(cs)>>,
              min_chunk_length |-> SetMin({chunk_lengths[j] : j \in 1..Len(cs)}),
              max_chunk_length |-> SetMax({chunk_lengths[j] : j \in 1..Len(cs)}),
              total_text_length |-> total]

\* VectorStore.get_statistics
get_statistics(ix, dim, type) ==
    IF ix.kind = "none"
    THEN [total_vectors |-> 0, embedding_dimension |-> dim, index_type |-> type]
    ELSE [total_vectors |-> ntotal(ix), embedding_dimension |-> ix.d,
          index_type |-> type, is_trained |-> ix.is_trained]

\* process_document, lines 145-154: the dict it returns.  processing_time is the
\* time since the call began, counted in completed steps.
CompileResults(fp, doc, cs, sums, final, elapsed, ix, dim, type) ==
    [file_path |-> fp,
     document_metadata |-> doc.metadata,
     total_chunks |-> Len(cs),
     chunk_summaries |-> sums,
     final_summary |-> final,
     processing_time |-> elapsed,
     chunk_statistics |-> get_chunk_statistics(cs),
     vector_store_stats |-> get_statistics(ix, dim, type)]

\* A stage starts; it completes, or raises and process_document re-raises.
Stage(name, raises, next) ==
    /\ pc = name
    /\ started' = Append(started, name)
    /\ completed' = IF raises THEN completed ELSE Append(completed, name)
    /\ pc' = IF raises THEN "raised" ELSE next
    /\ store_before' = store_before

\* What the vector store holds.
StoreContents ==
    [index |-> index, metadata_store |-> metadata_store, chunk_texts |-> chunk_texts]

\* No RAGPipeline call is in progress.
AtRest(p) == p \in {"idle", "returned", "raised"}

\* The body of process_document(fp, save_index=flag) is entered.
Enter(fp, flag) ==
    /\ AtRest(pc)
    /\ calls < MaxCalls
    /\ calls' = calls + 1
    /\ pc' = "load"
    /\ file_path' = fp
    /\ save_flag' = flag
    /\ title_kw' = NoTitle
    /\ document' = load_document(fp, [exists |-> FALSE])
    /\ doc_chunks' = <<>>
    /\ chunk_embeddings' = <<>>
    /\ chunk_summaries' = <<>>
    /\ final_summary' = <<>>
    /\ started' = <<>>
    /\ completed' = <<>>
    /\ result' = NoResult
    /\ store_before' = StoreContents
    /\ UNCHANGED <<storeVars, splitVars>>

\* pipeline.process_document(fp, save_index=flag)
ProcessDocument(fp, flag) ==
    /\ AtRest(multi_pc) /\ AtRest(gen_pc)
    /\ Enter(fp, flag)
    /\ UNCHANGED <<multiVars, genVars>>

\* pipeline.process_document(fp, title=t): process_document has no parameter
\* named title, so the call raises TypeError before its body is entered.
ProcessDocumentTitled(fp, t) ==
    /\ AtRest(multi_pc) /\ AtRest(gen_pc)
    /\ AtRest(pc)
    /\ calls < MaxCalls
    /\ calls' = calls + 1
    /\ pc' = "raised"
    /\ file_path' = fp
    /\ title_kw' = t
    /\ started' = <<>>
    /\ completed' = <<>>
    /\ result' = Raised("TypeError")
    /\ store_before' = StoreContents
    /\ UNCHANGED <<save_flag, document, doc_chunks, chunk_embeddings, chunk_summaries,
                   final_summary, storeVars, splitVars, multiVars, genVars>>

\* Step 1: document = self.data_loader.load_document(file_path)
StageLoad ==
    LET doc == load_document(file_path, FileAt(file_path))
    IN  /\ Stage("load", doc.status # "ok", "validate")
        /\ document' = doc
        /\ result' = IF doc.status # "ok" THEN Raised("load") ELSE result
        /\ UNCHANGED <<file_path, save_flag, title_kw, doc_chunks, chunk_embeddings,
                       chunk_summaries, final_summary, calls, storeVars, splitVars,
                       multiVars, genVars>>

\* Step 1: if not self.data_loader.validate_document(document): raise ValueError
StageValidate ==
    /\ Stage("validate", ~validate_document(document), "split")
    /\ result' = IF ~validate_document(document) THEN Raised("validate") ELSE result
    /\ UNCHANGED <<file_path, save_flag, title_kw, document, doc_chunks, chunk_embeddings,
                   chunk_summaries, final_summary, calls, storeVars, splitVars,
                   multiVars, genVars>>

\* Step 2: chunks = self.text_splitter.split_document(document)
StageSplit ==
    LET cs == split_document(document, PipeChunkSize, PipeChunkOverlap)
    IN  /\ Stage("split", cs = <<>>, "embed")
        /\ doc_chunks' = cs
        /\ result' = IF cs = <<>> THEN Raised("split") ELSE result
        /\ UNCHANGED <<file_path, save_flag, title_kw, document, chunk_embeddings,
                       chunk_summaries, final_summary, calls, storeVars, splitVars,
                       multiVars, genVars>>

\* Step 3: chunk_embeddings = self.embedding_service.generate_chunk_embeddings(chunks);
\* the model's encode may raise.
StageEmbed ==
    \E raises \in BOOLEAN :
        /\ Stage("embed", raises, "add")
        /\ chunk_embeddings' = IF raises THEN chunk_embeddings
                               ELSE generate_chunk_embeddings(doc_chunks)
        /\ result' = IF raises THEN Raised("embed") ELSE result
        /\ UNCHANGED <<file_path, save_flag, title_kw, document, doc_chunks,
                       chunk_summaries, final_summary, calls, storeVars, splitVars,
                       multiVars, genVars>>

\* Step 4: self.vector_store.add_embeddings(chunk_embeddings)
StageAdd ==
    LET res == AddBatch(index, metadata_store, chunk_texts, index_type,
                        chunk_embeddings, TRUE)
    IN  /\ Stage("add", res.raised, "summarize")
        /\ index' = res.lists.index
        /\ metadata_store' = res.lists.metadata_store
        /\ chunk_texts' = res.lists.chunk_texts
        /\ result' = IF res.raised THEN Raised("add") ELSE result
        /\ UNCHANGED <<embedding_dim, index_type, index_path, disk, ret, saved,
                       file_path, save_flag, title_kw, document, doc_chunks,
                       chunk_embeddings, chunk_summaries, final_summary, calls,
                       splitVars, multiVars, genVars>>

\* Step 5: chunk_summaries = self.summarizer.summarize_chunks(chunks)
StageSummarize ==
    /\ Stage("summarize", FALSE, "final")
    /\ \E model_ok \in BOOLEAN : chunk_summaries' = summarize_chunks(doc_chunks, model_ok)
    /\ UNCHANGED <<file_path, save_flag, title_kw, document, doc_chunks, chunk_embeddings,
                   final_summary, result, calls, storeVars, splitVars, multiVars, genVars>>

\* Step 6: final_summary = self.summarizer.generate_final_summary(chunk_summaries),
\* then the test of step 7; without a save the call compiles its results and returns.
StageFinal ==
    /\ Stage("final", FALSE, IF ShouldSave(save_flag, index_path) THEN "save" ELSE "returned")
    /\ \E model_ok \in BOOLEAN :
          final_summary' = generate_final_summary(chunk_summaries, model_ok)
    /\ result' = IF ShouldSave(save_flag, index_path) THEN result
                 ELSE CompileResults(file_path, document, doc_chunks, chunk_summaries,
                                     final_summary', Len(completed'), index,
                                     embedding_dim, index_type)
    /\ UNCHANGED <<file_path, save_flag, title_kw, document, doc_chunks, chunk_embeddings,
                   chunk_summaries, calls, storeVars, splitVars, multiVars, genVars>>

\* Step 7: self.vector_store.save_index(), then the call compiles its results
\* and returns.
StageSave ==
    /\ Stage("save", SaveRaises(NoPath), "returned")
    /\ SaveEffect(NoPath)
    /\ result' = IF SaveRaises(NoPath) THEN Raised("save")
                 ELSE CompileResults(file_path, document, doc_chunks, chunk_summaries,
                                     final_summary, Len(completed'), index,
                                     embedding_dim, index_type)
    /\ saves' = saves + 1
    /\ UNCHANGED <<index, metadata_store, chunk_texts, embedding_dim, index_type,
                   index_path, ret, file_path, save_flag, title_kw, document, doc_chunks,
                   chunk_embeddings, chunk_summaries, final_summary, calls, splitVars,
                   multi_pc, file_paths, multi_flag, multi_i, batch_results, genVars>>

(***************************************************************************)
(* RAGPipeline.process_multiple_documents (src/rag_pipeline.py)            *)
(***************************************************************************)

MaxPaths == 2   \* longest list passed to process_multiple_documents

FilePathLists == UNION {[1..n -> FilePaths] : n \in 0..MaxPaths}

\* A faulty except branch that records nothing for a document that failed.
SkipFailure(list, fp, e) == list

\* process_multiple_documents, lines 183-189: the except branch's entry.
AppendFailure(list, fp, e) ==
    Append(list, [file_path |-> fp, error |-> e, success |-> FALSE])

\* A faulty loop that hands its own save_index on to process_document.
InnerSaveFlagPassedOn(flag) == flag

\* process_multiple_documents, line 180: the save_index the loop passes to
\* process_document, whatever its own save_index is.
InnerSaveFlag(flag) == FALSE

\* pipeline.process_multiple_documents(paths, save_index=flag): results = []
ProcessMultipleDocuments(paths, flag) ==
    /\ AtRest(multi_pc) /\ AtRest(pc) /\ AtRest(gen_pc)
    /\ calls + Len(paths) <= MaxCalls
    /\ multi_pc' = "loop"
    /\ file_paths' = paths
    /\ multi_flag' = flag
    /\ multi_i' = 0
    /\ batch_results' = <<>>
    /\ saves' = 0
    /\ UNCHANGED <<storeVars, splitVars, pipeVars, genVars, calls>>

\* The loop's next document: self.process_document(file_path, save_index=False)
MultiCall ==
    /\ multi_pc = "loop"
    /\ multi_i < Len(file_paths)
    /\ Enter(file_paths[multi_i + 1], InnerSaveFlag(multi_flag))
    /\ multi_i' = multi_i + 1
    /\ multi_pc' = "call"
    /\ UNCHANGED <<file_paths, multi_flag, batch_results, saves, genVars>>

\* The call returned (results.append(result)) or raised (the except branch).
MultiCollect ==
    /\ multi_pc = "call"
    /\ AtRest(pc)
    /\ batch_results' = IF pc = "returned" THEN Append(batch_results, result)
                        ELSE AppendFailure(batch_results, file_path, result.exception)
    /\ multi_pc' = "loop"
    /\ UNCHANGED <<storeVars, splitVars, pipeVars, calls, file_paths, multi_flag,
                   multi_i, saves, genVars>>

\* After the loop: save_index once if asked to and there is an index path; the
\* save is outside every try, so what it raises leaves the call.
MultiFinish ==
    LET save == ShouldSave(multi_flag, index_path)
    IN  /\ multi_pc = "loop"
        /\ multi_i = Len(file_paths)
        /\ IF save THEN SaveEffect(NoPath) ELSE UNCHANGED <<disk, saved>>
        /\ multi_pc' = IF save /\ SaveRaises(NoPath) THEN "raised" ELSE "returned"
        /\ saves' = IF save THEN saves + 1 ELSE saves
        /\ UNCHANGED <<index, metadata_store, chunk_texts, embedding_dim, index_type,
                       index_path, ret, splitVars, pipeVars, calls, file_paths,
                       multi_flag, multi_i, batch_results, genVars>>

(***************************************************************************)
(* RAGPipeline.query_documents (src/rag_pipeline.py)                       *)
(***************************************************************************)

\* The queries: an empty one, a whitespace-only one, and a sentence.
QueryTexts == {<<>>, <<" ">>, <<"a", "a", "a", "a", ".">>}

\* "No relevant content found."
NoRelevantContent ==
    <<"N", "o", " ", "r", "e", "l", "e", "v", "a", "n", "t", " ", "c", "o", "n", "t",
      "e", "n", "t", " ", "f", "o", "u", "n", "d", ".">>

\* A faulty query_documents that reports success whatever was retrieved.
QueryAlwaysFound(query) ==
    [query |-> query, retrieved_chunks |-> <<>>, summary |-> <<>>,
     success |-> TRUE, num_chunks_retrieved |-> 0]

\* query_documents, lines 221-227: the dict returned when nothing was retrieved.
QueryFoundNothing(query) ==
    [query |-> query, retrieved_chunks |-> <<>>, summary |-> NoRelevantContent,
     success |-> FALSE]

\* query_documents, lines 236-242: the dict returned with the retrieved chunks.
QueryFound(query, retrieved_chunks, summary) ==
    [query |-> query, retrieved_chunks |-> retrieved_chunks, summary |-> summary,
     success |-> TRUE, num_chunks_retrieved |-> Len(retrieved_chunks)]

\* query_documents, lines 247-253: the dict returned by the except branch.
QueryFailed(query, e) == [query |-> query, error |-> e, success |-> FALSE]

\* The dicts query_documents(query, k, generate_summary) may return: the encoder
\* answers or raises, VectorStore.search answers with one of the rows FAISS may
\* return, the summarization model answers or raises (summarize_text catches that).
query_documents(query, k, generate_summary) ==
    UNION {LET emb == generate_embedding(query, encoder_ok)
               kk == Min(k, ntotal(index))
               answer(row) ==
                   LET retrieved_chunks == FormatResults(row, metadata_store, chunk_texts)
                       summary == IF generate_summary
                                  THEN summarize_with_rag(query, retrieved_chunks, model_ok)
                                  ELSE <<>>
                   IN  IF retrieved_chunks = <<>>
                       THEN QueryFoundNothing(query)
                       ELSE QueryFound(query, retrieved_chunks, summary)
           IN  IF emb.raised
               THEN {QueryFailed(query, emb.error)}
               ELSE IF index.kind = "none" \/ ntotal(index) = 0
               THEN {QueryFoundNothing(query)}
               ELSE {answer(row) :
                        row \in FaissSearch(index, Normalize(emb.embedding, TRUE), kk)} :
           encoder_ok \in BOOLEAN, model_ok \in BOOLEAN}

\* pipeline.query_documents(query, k, generate_summary)
QueryDocuments(query, k, generate_summary) ==
    /\ AtRest(pc) /\ AtRest(multi_pc) /\ AtRest(gen_pc)
    /\ calls < MaxCalls
    /\ calls' = calls + 1
    /\ result' \in query_documents(query, k, generate_summary)
    /\ UNCHANGED <<pc, file_path, save_flag, title_kw, document, doc_chunks,
                   chunk_embeddings, chunk_summaries, final_summary, started, completed,
                   store_before, storeVars, splitVars, multiVars, genVars>>

(***************************************************************************)
(* RAGPipeline.generate_document_summary (src/rag_pipeline.py)             *)
(***************************************************************************)

\* The k generate_document_summary passes to query_documents.
SummaryK == 10

\* The paths generate_document_summary is given: a text file under two
\* spellings of its path, another text file, and a missing file.
SummaryPaths == {FilePath("paper", ".txt"), DotSlash(FilePath("paper", ".txt")),
                 FilePath("memo", ".txt"), FilePath("gone", ".txt")}

\* The query argument: None, or a sentence.
SummaryQueries == {<<>>, <<"a", "a", "a", "a", ".">>}

\* "No content found in document."
NoContentFound ==
    <<"N", "o", " ", "c", "o", "n", "t", "e", "n", "t", " ", "f", "o", "u", "n", "d",
      " ", "i", "n", " ", "d", "o", "c", "u", "m", "e", "n", "t", ".">>

\* metadata.get('metadata', {}).get('file_path') == str(file_path)
IsEntryOf(entry, fp) ==
    LET md == Get(entry, "metadata", <<>>)
    IN  Has(md, "file_path") /\ md.file_path = fp

\* RAGPipeline._document_in_store
_document_in_store(fp) ==
    \E i \in 1..Len(metadata_store) : IsEntryOf(metadata_store[i], fp)

\* RAGPipeline._get_document_chunks
_get_document_chunks(fp) ==
    LET at == SelectSeq([i \in 1..Len(metadata_store) |-> i],
                        LAMBDA i : IsEntryOf(metadata_store[i], fp))
    IN  [j \in 1..Len(at) |->
            [text |-> chunk_texts[at[j]],
             chunk_id |-> Get(metadata_store[at[j]], "chunk_id", NoChunkId),
             metadata |-> Get(metadata_store[at[j]], "metadata", <<>>)]]

\* generate_document_summary after its process_document step, lines 275-299:
\* the dicts it may return.
SummaryOutcomes(fp, query) ==
    IF query # <<>>
    THEN query_documents(query, SummaryK, TRUE)
    ELSE LET cs == _get_document_chunks(fp)
         IN  IF cs = <<>>
             THEN {[file_path |-> fp, summary |-> NoContentFound, success |-> FALSE]}
             ELSE {LET sums == summarize_chunks(cs, model_ok)
                   IN  [file_path |-> fp,
                        summary |-> generate_final_summary(sums, model_ok),
                        chunk_summaries |-> sums,
                        success |-> TRUE] : model_ok \in BOOLEAN}

\* pipeline.generate_document_summary(fp, query): a document found in the store
\* is summarized at once; for any other, process_document(fp, save_index=True)
\* is entered first.
GenerateDocumentSummary(fp, query) ==
    /\ AtRest(pc) /\ AtRest(multi_pc) /\ AtRest(gen_pc)
    /\ calls < MaxCalls
    /\ gen_query' = query
    /\ IF _document_in_store(fp)
       THEN /\ calls' = calls + 1
            /\ gen_pc' = "returned"
            /\ file_path' = fp
            /\ store_before' = StoreContents
            /\ result' \in SummaryOutcomes(fp, query)
            /\ UNCHANGED <<pc, save_flag, title_kw, document, doc_chunks, chunk_embeddings,
                           chunk_summaries, final_summary, started, completed,
                           storeVars, splitVars>>
       ELSE /\ Enter(fp, TRUE)
            /\ gen_pc' = "call"
    /\ UNCHANGED multiVars

\* process_document has returned, and the summary is made; or it has raised,
\* and the except branch (lines 303-309) returns the error.
GenerateFinish ==
    /\ gen_pc = "call"
    /\ AtRest(pc)
    /\ gen_pc' = "returned"
    /\ IF pc = "raised"
       THEN result' = [file_path |-> file_path, error |-> result.exception,
                       success |-> FALSE]
       ELSE result' \in SummaryOutcomes(file_path, gen_query)
    /\ UNCHANGED <<pc, file_path, save_flag, title_kw, document, doc_chunks,
                   chunk_embeddings, chunk_summaries, final_summary, started, completed,
                   store_before, storeVars, splitVars, multiVars, gen_query, calls>>

(***************************************************************************)
(* Specification SpecSplit: one call of TextSplitter.split_text on every   *)
(* text, chunk_size and chunk_overlap within the bounds.                   *)
(***************************************************************************)

MaxTextLen   == 6
MaxChunkSize == 4
MaxOverlap   == 2

Alphabet == {"a", ".", " ", "\n"}
Texts == UNION {[1..n -> Alphabet] : n \in 0..MaxTextLen}

IdleSplit ==
    /\ text = <<>> /\ chunk_size = 0 /\ chunk_overlap = 0
    /\ chunks = <<>> /\ cuts = <<>> /\ split_pc = "idle" /\ split_pieces = <<>>

\* chunks = splitter.split_text(text, "doc")
SplitText ==
    /\ split_pc = "call"
    /\ split_pieces' = IF text = <<>> \/ Strip(text) = <<>> THEN <<>>
                        ELSE _split_by_paragraphs(text, chunk_size)
    /\ chunks' = split_text(text, chunk_size, chunk_overlap, "doc")
    /\ cuts' = SplitTrace(text, chunk_size, chunk_overlap, "doc").cuts
    /\ split_pc' = "returned"
    /\ UNCHANGED <<text, chunk_size, chunk_overlap, storeVars, pipeVars, multiVars,
                   genVars, calls>>

(***************************************************************************)
(* Initial states and specifications                                       *)
(***************************************************************************)

\* No process_document call has been made.
IdlePipe ==
    /\ pc = "idle" /\ calls = 0
    /\ file_path = FilePath("", "") /\ save_flag = FALSE /\ title_kw = NoTitle
    /\ document = load_document(FilePath("", ""), [exists |-> FALSE])
    /\ doc_chunks = <<>> /\ chunk_embeddings = <<>>
    /\ chunk_summaries = <<>> /\ final_summary = <<>>
    /\ started = <<>> /\ completed = <<>> /\ result = NoResult
    /\ store_before = NoResult
    /\ multi_pc = "idle" /\ file_paths = <<>> /\ multi_flag = FALSE /\ multi_i = 0
    /\ batch_results = <<>> /\ saves = 0
    /\ gen_pc = "idle" /\ gen_query = <<>>

\* An empty file system.
EmptyDisk ==
    /\ disk = [p \in Paths |-> NoFiles]
    /\ saved = [p \in Paths |-> <<>>]

\* VectorStore(): no path, no dimension, a flat index type, no index yet.
InitStore ==
    /\ index = NoIndex /\ metadata_store = <<>> /\ chunk_texts = <<>>
    /\ embedding_dim = NoDim /\ index_type = "flat" /\ index_path = NoPath
    /\ ret = Outcome("__init__", FALSE, <<>>, 0)
    /\ EmptyDisk

\* Spec: any sequence of calls on a VectorStore, and of constructions of new ones
\* over the same file system.
Init == InitStore /\ IdleSplit /\ IdlePipe

Next ==
    \/ \E p \in IndexPaths, dim \in Dims, type \in IndexTypes : Construct(p, dim, type)
    \/ \E embeddings \in Batches : AddEmbeddings(embeddings)
    \/ \E q \in Queries, k \in 1..MaxK : Search(q, k)
    \/ \E chunk_ids \in ChunkIdLists : RemoveEmbeddings(chunk_ids)
    \/ Clear
    \/ \E path \in Paths \cup {NoPath} : SaveIndex(path)
    \/ \E path \in Paths : LoadIndex(path)
    \/ \E path \in IndexPaths \ {NoPath} : ExternalCreate(path)

Spec == Init /\ [][Next]_vars

\* SpecDisk: calls on one VectorStore whose save_index may stop between its two
\* files.
NextDisk ==
    \/ \E embeddings \in Batches : AddEmbeddings(embeddings)
    \/ \E path \in Paths \cup {NoPath} : SaveIndex(path)
    \/ \E path \in Paths \cup {NoPath}, truncated \in BOOLEAN :
          SaveIndexInterrupted(path, truncated)
    \/ \E path \in Paths : LoadIndex(path)

SpecDisk == Init /\ [][NextDisk]_vars

\* SpecSplit: split_text called once on each text of Texts.
InitSplit ==
    /\ InitStore /\ IdlePipe
    /\ text \in Texts
    /\ chunk_size \in 2..MaxChunkSize
    /\ chunk_overlap \in 0..MaxOverlap
    /\ chunks = <<>> /\ cuts = <<>> /\ split_pc = "call" /\ split_pieces = <<>>

NextSplit == SplitText

SpecSplit == InitSplit /\ [][NextSplit]_vars

\* SpecPipe: RAGPipeline(index_path=p) on an empty file system, its VectorStore
\* built by _initialize_components with the encoder's dimension, then
\* process_document calls.
InitPipe ==
    /\ IdleSplit /\ IdlePipe /\ EmptyDisk
    /\ index_path \in Paths \cup {NoPath}
    /\ index = _create_index("flat", EncoderDim)
    /\ metadata_store = <<>> /\ chunk_texts = <<>>
    /\ embedding_dim = EncoderDim /\ index_type = "flat"
    /\ ret = Outcome("__init__", FALSE, <<>>, 0)

NextPipe ==
    \/ \E fp \in FilePaths, flag \in BOOLEAN : ProcessDocument(fp, flag)
    \/ \E fp \in FilePaths, t \in Titles : ProcessDocumentTitled(fp, t)
    \/ \E paths \in FilePathLists, flag \in BOOLEAN : ProcessMultipleDocuments(paths, flag)
    \/ MultiCall
    \/ MultiCollect
    \/ MultiFinish
    \/ \E query \in QueryTexts, k \in 1..MaxK, generate_summary \in BOOLEAN :
          QueryDocuments(query, k, generate_summary)
    \/ StageLoad
    \/ StageValidate
    \/ StageSplit
    \/ StageEmbed
    \/ StageAdd
    \/ StageSummarize
    \/ StageFinal
    \/ StageSave

SpecPipe == InitPipe /\ [][NextPipe]_vars

\* SpecSummary: the same RAGPipeline, given generate_document_summary calls.
NextSummary ==
    \/ \E fp \in SummaryPaths, query \in SummaryQueries : GenerateDocumentSummary(fp, query)
    \/ GenerateFinish
    \/ StageLoad
    \/ StageValidate
    \/ StageSplit
    \/ StageEmbed
    \/ StageAdd
    \/ StageSummarize
    \/ StageFinal
    \/ StageSave

SpecSummary == InitPipe /\ [][NextSummary]_vars

(***************************************************************************)
(* Properties of the VectorStore, checked under Spec                       *)
(***************************************************************************)

\* C1: in every state reached by VectorStore calls, the index holds as many
\* vectors as metadata_store and chunk_texts hold entries, and at every position
\* the vector, the metadata entry and the text are those of one added emb_data.
C1_PositionalCorrespondence ==
    /\ ntotal(index) = Len(metadata_store)
    /\ Len(metadata_store) = Len(chunk_texts)
    /\ \A i \in 1..ntotal(index) :
          \E e \in EmbData :
              /\ Has(e, "embedding")
              /\ index.vecs[i] = Normalize(e.embedding, TRUE)
              /\ metadata_store[i] = MetadataOf(e)
              /\ chunk_texts[i] = TextOf(e)

\* A store of three entries has had one removed, leaving two.
C1_Witness ==
    ret.op = "remove_embeddings" /\ ret.logged = 1 /\ ntotal(index) = 2

\* C2: search(query, k) on a store of n vectors returns at most min(k, n)
\* results, each with an index i, 0 <= i < n, and the metadata and text stored
\* at position i.
C2_SearchResultsInRange ==
    [][(ret'.op = "search" /\ ~ret'.raised) =>
          \A q \in Queries, k \in 1..MaxK :
              Search(q, k) =>
                  LET n == ntotal(index)
                      results == ret'.results
                  IN  /\ Len(results) <= Min(k, n)
                      /\ \A r \in 1..Len(results) :
                            /\ 0 <= results[r].index
                            /\ results[r].index < n
                            /\ results[r].metadata = metadata_store[results[r].index + 1]
                            /\ results[r].text = chunk_texts[results[r].index + 1]]_vars

\* C3: remove_embeddings(chunk_ids) on a flat index leaves no entry whose
\* chunk_id is in chunk_ids, and leaves every other entry, in the order they
\* had, its vector, metadata and text at one common position.
C3_RemoveKeepsTheRest ==
    [][(ret'.op = "remove_embeddings" /\ index.kind = "flat") =>
          \A chunk_ids \in ChunkIdLists :
              RemoveEmbeddings(chunk_ids) =>
                  LET keep == {i \in 1..Len(metadata_store) :
                                  metadata_store[i].chunk_id \notin chunk_ids}
                      pos(j) == CHOOSE i \in keep : Cardinality({x \in keep : x <= i}) = j
                      n == Cardinality(keep)
                  IN  /\ \A i \in 1..Len(metadata_store') :
                            metadata_store'[i].chunk_id \notin chunk_ids
                      /\ ntotal(index') = n
                      /\ Len(metadata_store') = n
                      /\ Len(chunk_texts') = n
                      /\ \A j \in 1..n :
                            /\ index'.vecs[j] = index.vecs[pos(j)]
                            /\ metadata_store'[j] = metadata_store[pos(j)]
                            /\ chunk_texts'[j] = chunk_texts[pos(j)]]_vars

\* The middle one of three entries, the only one without a text, has been removed.
C3_Witness ==
    /\ ret.op = "remove_embeddings" /\ ret.logged = 1
    /\ index.kind = "flat" /\ ntotal(index) = 2
    /\ \A i \in 1..2 : metadata_store[i].chunk_id = ChunkId("a", 0) /\ chunk_texts[i] = <<"a">>

\* C4: add_embeddings with a batch of n >= 1 entries on a store of m vectors,
\* when it returns, leaves m + n vectors (total_vectors = m + n), the j-th entry
\* of the batch at position m + j of the index, metadata_store and chunk_texts,
\* and the first m positions as they were.
C4_AddAppends ==
    [][(ret'.op = "add_embeddings" /\ ~ret'.raised) =>
          \A embeddings \in Batches :
              (/\ embeddings # <<>>
               /\ Len(embeddings) = ret'.logged
               /\ \A j \in 1..Len(embeddings) : Has(embeddings[j], "embedding")
               /\ AddEmbeddings(embeddings)) =>
                  LET m == ntotal(index)
                      n == Len(embeddings)
                  IN  /\ TotalVectors(index') = m + n
                      /\ Len(metadata_store') = m + n
                      /\ Len(chunk_texts') = m + n
                      /\ \A j \in 1..n :
                            /\ index'.vecs[m + j] = Normalize(embeddings[j].embedding, TRUE)
                            /\ metadata_store'[m + j] = MetadataOf(embeddings[j])
                            /\ chunk_texts'[m + j] = TextOf(embeddings[j])
                      /\ \A i \in 1..m :
                            /\ index'.vecs[i] = index.vecs[i]
                            /\ metadata_store'[i] = metadata_store[i]
                            /\ chunk_texts'[i] = chunk_texts[i]]_vars

\* A batch of two entries has been added to a store that held one.
C4_Witness ==
    ret.op = "add_embeddings" /\ ~ret.raised /\ ret.logged = 2 /\ ntotal(index) = 3

\* C5: load_index(path) after a save_index(path) of a non-empty store gives the
\* loading store the saved vectors in the saved order, and the saved
\* metadata_store, chunk_texts and index_type.
C5_RoundTrip ==
    [][(ret'.op = "load_index" /\ ~ret'.raised) =>
          \A path \in Paths :
              (/\ saved[path] # <<>>
               /\ ntotal(saved[path][1].index) > 0
               /\ LoadIndex(path)) =>
                  /\ index'.vecs = saved[path][1].index.vecs
                  /\ metadata_store' = saved[path][1].metadata_store
                  /\ chunk_texts' = saved[path][1].chunk_texts
                  /\ index_type' = saved[path][1].index_type]_vars

\* A store constructed with another index_path than the saving store's (so
\* another VectorStore) has loaded a saved store of at least one vector.
C5_Witness ==
    /\ ret.op = "load_index" /\ ~ret.raised /\ ret.logged >= 1
    /\ saved[DirPath] # <<>>
    /\ saved[DirPath][1].index_path # index_path
    /\ metadata_store = saved[DirPath][1].metadata_store

\* C6: VectorStore(index_path=p), constructed after a save_index to p, starts
\* with the saved index, metadata and texts.
C6_ConstructorLoadsSavedIndex ==
    (/\ ret.op = "__init__" /\ ~ret.raised
     /\ index_path # NoPath
     /\ saved[index_path] # <<>>) =>
        /\ index = saved[index_path][1].index
        /\ metadata_store = saved[index_path][1].metadata_store
        /\ chunk_texts = saved[index_path][1].chunk_texts

\* C18: add_embeddings is all-or-nothing: when it raises (an entry without
\* 'embedding', vectors of mixed dimensions or of another dimension than the
\* index's, an index type that cannot be created, training that fails), the
\* number of indexed vectors, metadata_store and chunk_texts are what they were
\* before the call, so the three still have the same length.
C18_AddAllOrNothing ==
    [][(ret'.op = "add_embeddings" /\ ret'.raised) =>
          /\ TotalVectors(index') = TotalVectors(index)
          /\ metadata_store' = metadata_store
          /\ chunk_texts' = chunk_texts
          /\ (Len(metadata_store) = TotalVectors(index) /\ Len(chunk_texts) = TotalVectors(index))
                => (Len(metadata_store') = TotalVectors(index')
                    /\ Len(chunk_texts') = TotalVectors(index'))]_vars

\* add_embeddings raised on a store that holds entries.
C18_Witness ==
    /\ ret.op = "add_embeddings" /\ ret.raised
    /\ Len(metadata_store) >= 1
    /\ TotalVectors(index) = Len(metadata_store)

(***************************************************************************)
(* Properties of the persisted pair of files, checked under SpecDisk       *)
(***************************************************************************)

\* C16: at every point of any sequence of save_index calls to the same path,
\* interrupted ones included, the .faiss file and the .metadata.pkl file
\* describe the same entries: whenever both are there and readable, load_index
\* would yield a store whose vector count equals its metadata and text counts.
C16_FilesDescribeSameEntries ==
    \A p \in Paths :
        (disk[p].faiss # <<>> /\ disk[p].pkl # <<>> /\ disk[p].pkl[1] # Unreadable) =>
            LET store == Loaded(disk[p].faiss[1], disk[p].pkl[1])
            IN  /\ ntotal(store.index) = Len(store.metadata_store)
                /\ ntotal(store.index) = Len(store.chunk_texts)

\* C17: load_index is all-or-nothing: whenever it raises, index, metadata_store
\* and chunk_texts are left exactly as they were before the call.
C17_LoadAllOrNothing ==
    [][(ret'.op = "load_index" /\ ret'.raised) =>
          /\ index' = index
          /\ metadata_store' = metadata_store
          /\ chunk_texts' = chunk_texts]_vars

(***************************************************************************)
(* Properties of TextSplitter.split_text, checked under SpecSplit          *)
(***************************************************************************)

\* C7: every chunk split_text returns has len(text) <= chunk_size.
C7_ChunkSizeIsMaximum ==
    split_pc = "returned" =>
        \A j \in 1..Len(chunks) : Len(chunks[j].text) <= chunk_size

\* C8: each chunk after the first starts with the last chunk_overlap characters
\* of the text the chunk before it was cut from, at a found split point or by a
\* forced split.
C8_OverlapBetweenChunks ==
    split_pc = "returned" =>
        \A j \in 1..(Len(chunks) - 1) :
            LET src == cuts[j].src
                trailing == SubSeq(src, Max(Len(src) - chunk_overlap, 0) + 1, Len(src))
            IN  StartsWith(chunks[j + 1].text, trailing)

\* C13: split_text returns an empty list for an empty or whitespace-only text,
\* and for every other text at least one chunk, each chunk with a non-empty
\* text, whatever chunk_size and chunk_overlap are.
C13_ChunksNonEmpty ==
    split_pc = "returned" =>
        IF Strip(text) = <<>>
        THEN chunks = <<>>
        ELSE /\ Len(chunks) >= 1
             /\ \A j \in 1..Len(chunks) : chunks[j].text # <<>>

\* A returned call that cut the text into several chunks, one of them by a
\* forced split, with an overlap as large as the chunk size.
C13_Witness ==
    /\ split_pc = "returned"
    /\ Len(chunks) >= 2
    /\ chunk_overlap >= chunk_size
    /\ \E j \in 1..Len(cuts) : cuts[j].how = "forced"

\* What _split_by_paragraphs is to return for the paragraphs paras: a paragraph
\* of at most size characters stripped, if anything is left of it, and a longer
\* one replaced by what _split_by_sentences makes of it.
RECURSIVE KeptOrSentences(_, _)
KeptOrSentences(paras, size) ==
    IF paras = <<>> THEN <<>>
    ELSE LET para == Head(paras)
         IN  (IF Len(para) > size THEN _split_by_sentences(para)
              ELSE IF Strip(para) = <<>> THEN <<>>
              ELSE <<Strip(para)>>) \o KeptOrSentences(Tail(paras), size)

\* The strings ps occur in s one after the other, without overlapping, from
\* position from (1-based) on.
RECURSIVE OccursInOrder(_, _, _)
OccursInOrder(ps, s, from) ==
    IF ps = <<>> THEN TRUE
    ELSE LET h == Head(ps)
             hits == {j \in from..(Len(s) - Len(h) + 1) : SubSeq(s, j, j + Len(h) - 1) = h}
         IN  hits # {} /\ OccursInOrder(Tail(ps), s, SetMin(hits) + Len(h))

\* C15: _split_by_paragraphs keeps every paragraph (the text between two blank
\* lines) of length <= chunk_size as one piece and replaces every longer one by
\* its sentences in their order; every piece is stripped and non-empty, and the
\* pieces appear in the order they have in the input.
C15_ParagraphsThenSentences ==
    (split_pc = "returned" /\ Strip(text) # <<>>) =>
        /\ split_pieces = KeptOrSentences(ParaScan(text, 1), chunk_size)
        /\ \A j \in 1..Len(split_pieces) :
              split_pieces[j] # <<>> /\ Strip(split_pieces[j]) = split_pieces[j]
        /\ OccursInOrder(split_pieces, text, 1)

\* A text of a short paragraph followed by a long one of two sentences.
C15_Witness ==
    /\ split_pc = "returned"
    /\ Len(ParaScan(text, 1)) = 2
    /\ Len(ParaScan(text, 1)[1]) <= chunk_size
    /\ Len(ParaScan(text, 1)[2]) > chunk_size
    /\ Len(split_pieces) = 3

\* C19: no content is lost by chunking: every piece produced by
\* _split_by_paragraphs occurs as a substring of the text of at least one chunk
\* returned by split_text.
C19_NoContentLost ==
    split_pc = "returned" =>
        \A j \in 1..Len(split_pieces) :
            \E c \in 1..Len(chunks) : Contains(chunks[c].text, split_pieces[j])

\* C20: for every chunk 0 <= start_index <= end_index, and start_index never
\* decreases from one chunk to the next, for every chunk_size and every
\* chunk_overlap with 0 <= chunk_overlap < chunk_size.
C20_IndicesOrdered ==
    (split_pc = "returned" /\ 0 <= chunk_overlap /\ chunk_overlap < chunk_size) =>
        /\ \A j \in 1..Len(chunks) :
              0 <= chunks[j].start_index /\ chunks[j].start_index <= chunks[j].end_index
        /\ \A j \in 1..(Len(chunks) - 1) :
              chunks[j].start_index <= chunks[j + 1].start_index

(***************************************************************************)
(* Properties of RAGPipeline.process_document, checked under SpecPipe      *)
(***************************************************************************)

\* C9: when process_document has returned, every chunk of the document is in
\* the vector store and chunk_texts holds the chunk's text at its position.
C9_StoreHoldsChunkText ==
    pc = "returned" =>
        \A j \in 1..Len(doc_chunks) :
            /\ \E i \in 1..Len(metadata_store) :
                  metadata_store[i].chunk_id = doc_chunks[j].chunk_id
            /\ \A i \in 1..Len(metadata_store) :
                  metadata_store[i].chunk_id = doc_chunks[j].chunk_id =>
                      chunk_texts[i] = doc_chunks[j].text

\* C10: the stages of a process_document call start in the order load,
\* validate, split, embed, add, summarize, final summary, save; a stage starts
\* only when every stage before it has completed; and save starts only when
\* save_index is true and an index_path is set.
C10_StageOrder ==
    /\ \E n \in 0..Len(StageOrder) : started = SubSeq(StageOrder, 1, n)
    /\ Len(completed) <= Len(started)
    /\ completed = SubSeq(started, 1, Len(completed))
    /\ Len(started) - Len(completed) <= 1
    /\ (\E k \in 1..Len(started) : started[k] = "save") =>
          (save_flag /\ index_path # NoPath)

\* A call has run all eight stages and returned.
C10_Witness ==
    pc = "returned" /\ completed = StageOrder

(***************************************************************************)
(* Properties of RAGPipeline.process_multiple_documents, checked under     *)
(* SpecPipe                                                                *)
(***************************************************************************)

\* The entry the except branch of process_multiple_documents appends for fp.
IsFailure(entry, fp) ==
    /\ DOMAIN entry = {"file_path", "error", "success"}
    /\ entry.file_path = fp
    /\ entry.success = FALSE

\* C11: process_multiple_documents returns one result per input path, in input
\* order: between two iterations of its loop the results list has one entry for
\* each path gone through, the entry at position j carrying file_paths[j]; the
\* entry of a document whose process_document call raised is exactly
\* 'file_path', 'error' and 'success': False, and that of a call that returned
\* is what it returned; the loop goes on to the end of the list whatever
\* failed, and the call raises only from the save_index that follows the loop,
\* never from a document.
C11_OneResultPerPath ==
    /\ multi_pc \in {"loop", "returned", "raised"} =>
          /\ Len(batch_results) = multi_i
          /\ \A j \in 1..Len(batch_results) : batch_results[j].file_path = file_paths[j]
          /\ \A j \in 1..Len(batch_results) :
                file_paths[j].stem \in {"gone", "slides", "note"} =>
                    IsFailure(batch_results[j], file_paths[j])
    /\ (multi_pc = "loop" /\ multi_i > 0) =>
          /\ pc = "raised" => IsFailure(batch_results[multi_i], file_paths[multi_i])
          /\ pc = "returned" => batch_results[multi_i] = result
    /\ multi_pc \in {"returned", "raised"} => Len(batch_results) = Len(file_paths)
    /\ multi_pc = "raised" => ShouldSave(multi_flag, index_path) /\ SaveRaises(NoPath)

\* A call that returned two results, the first for a document that failed and
\* the second for a document processed after it.
C11_Witness ==
    /\ multi_pc = "returned"
    /\ Len(batch_results) = 2
    /\ IsFailure(batch_results[1], file_paths[1])
    /\ ~Has(batch_results[2], "error")
    /\ batch_results[2].total_chunks > 0

\* The text files of FilePaths that pass validate_document.
ValidTextFiles == {FilePath("paper", ".txt"), FilePath("memo", ".txt")}

\* C12: process_document called on a valid text document with a title argument,
\* as the deployment test calls it, returns a result whose 'success' is true and
\* which carries 'total_chunks', 'processing_time' and 'final_summary'.
C12_DeploymentTestResult ==
    (AtRest(pc) /\ pc # "idle" /\ title_kw \in Titles /\ file_path \in ValidTextFiles) =>
        /\ pc = "returned"
        /\ {"success", "total_chunks", "processing_time", "final_summary"}
               \subseteq DOMAIN result
        /\ result.success = TRUE

(***************************************************************************)
(* Properties of RAGPipeline.query_documents, checked under SpecPipe       *)
(***************************************************************************)

\* The last call was query_documents and the store is as the call found it.
Queried == Has(result, "query")

\* query_documents as the claim states it: a query against a store with no
\* vectors yields 'success': False, an empty 'retrieved_chunks' and the summary
\* "No relevant content found.", whatever the query.
C14_EmptyStoreFindsNothing ==
    (Queried /\ TotalVectors(index) = 0) =>
        /\ result.success = FALSE
        /\ Has(result, "retrieved_chunks") /\ Has(result, "summary")
        /\ result.retrieved_chunks = <<>>
        /\ result.summary = NoRelevantContent

\* C14: query_documents never raises: it returns a dict with 'success'; an
\* exception during retrieval or summarization yields 'success': False and
\* 'error'; 'success': True is returned only with at least one retrieved chunk;
\* and a query against a store with no vectors yields 'success': False, with an
\* empty 'retrieved_chunks' and the summary "No relevant content found." when
\* the query's embedding could be generated, and with 'error' when it could not
\* (an empty or whitespace-only query, or an encoder that raised).
C14_QueryNeverRaises ==
    Queried =>
        /\ ~Has(result, "exception")
        /\ Has(result, "success")
        /\ Has(result, "error") =>
              /\ result.success = FALSE
              /\ Strip(result.query) = <<>> \/ result.error = "encode"
        /\ Strip(result.query) = <<>> => Has(result, "error")
        /\ result.success = TRUE =>
              /\ ~Has(result, "error")
              /\ Len(result.retrieved_chunks) >= 1
              /\ result.num_chunks_retrieved = Len(result.retrieved_chunks)
        /\ (TotalVectors(index) = 0 /\ ~Has(result, "error")) =>
              /\ result.success = FALSE
              /\ result.retrieved_chunks = <<>>
              /\ result.summary = NoRelevantContent

\* A query answered with a chunk of a processed document, and its summary.
C14_Witness ==
    /\ Queried
    /\ TotalVectors(index) > 0
    /\ result.success = TRUE
    /\ Len(result.retrieved_chunks) >= 1
    /\ result.summary # <<>>

(***************************************************************************)
(* Properties of failing and of batched calls, checked under SpecPipe      *)
(***************************************************************************)

\* C22: whenever process_document raises, at whichever stage (loading,
\* validation, chunking, embedding, summarization or saving the index), the
\* vector store holds exactly the vectors, metadata and texts it held when the
\* call was made: none of the document's chunks has stayed behind.
C22_NoPartialDocument ==
    (pc = "raised" /\ store_before # NoResult) => StoreContents = store_before

\* C23: process_multiple_documents saves the index once, after all documents:
\* no save_index call is made while its loop runs, and when it ends exactly one
\* has been made if save_index is true and index_path is set, none otherwise,
\* whatever number of documents failed.
C23_OneSaveAtEnd ==
    [][/\ multi_pc' \in {"loop", "call"} => saves' = 0
       /\ (multi_pc = "loop" /\ AtRest(multi_pc')) =>
              saves' = IF multi_flag /\ index_path # NoPath THEN 1 ELSE 0]_vars

\* A batch of two documents, the first failed and the second processed, has
\* returned after its one save, which wrote the index files.
C23_Witness ==
    /\ multi_pc = "returned"
    /\ Len(file_paths) = 2 /\ Len(batch_results) = 2
    /\ IsFailure(batch_results[1], file_paths[1])
    /\ ~IsFailure(batch_results[2], file_paths[2])
    /\ multi_flag /\ index_path # NoPath
    /\ saves = 1
    /\ disk[index_path].faiss # <<>>

(***************************************************************************)
(* Properties of generate_document_summary, checked under SpecSummary      *)
(***************************************************************************)

\* The store as the last call found it holds chunks of the file that fp names.
InStoreBefore(fp) ==
    \E i \in 1..Len(store_before.metadata_store) :
        IsEntryOf(store_before.metadata_store[i], PathStr(fp))

\* C21: generate_document_summary processes a document only if it is not in the
\* vector store already: a call for a file whose chunks the store holds leaves
\* the store with the vectors, metadata and texts it had, so that calling it
\* twice for one file leaves what calling it once left.
C21_ProcessedOnce ==
    (gen_pc = "returned" /\ InStoreBefore(file_path)) => StoreContents = store_before

====
